---- MODULE Spec2Model ----
(***************************************************************************)
(* Model of tkinter_opencv_video.py: the CV2Video controller (UI process), *)
(* the frame-collector child process it spawns, and the one Pipe between   *)
(* them.                                                                   *)
(***************************************************************************)
EXTENDS Integers, Sequences, FiniteSets, TLC

(***************************************************************************)
(* Bounds of the model.                                                    *)
(***************************************************************************)
\* Largest number of frames in a finite video file.
MaxFrames == 2
\* Capacity of the pipe in messages (the OS buffer of the Pipe is finite:
\* sender.send blocks while it is full).
MaxQueue == 2
\* Frame counters (frame_number, capture position) live in 0..MaxFrameNumber;
\* the increment saturates there.
MaxFrameNumber == 3
\* The child is never more than MaxLag ticks behind its deadline: the clock
\* stops ticking there.
MaxLag == 3

Min(a, b) == IF a < b THEN a ELSE b

\* Python's None, as a message of the pipe and as a value of _frame.
None == [kind |-> "none", pos |-> 0]
\* A frame (cv2 MatLike) read at capture position p.
Frame(p) == [kind |-> "frame", pos |-> p]

\* PIL.ImageTk.PhotoImage built from a frame, or None.
NoImage == [kind |-> "none", pos |-> 0, size |-> <<0, 0>>, flipped |-> FALSE]

(***************************************************************************)
(* The video sources the capture backend is opened on.  str: the           *)
(* identifier is a file name / URI (isinstance(filename_or_index, str));   *)
(* opens: the backend can open it; endless: every read succeeds (camera,   *)
(* live stream); total: number of frames of a finite file; shape: the      *)
(* (width, height) of its frames; fps: what the backend reports as         *)
(* CAP_PROP_FPS once it is open.                                           *)
(***************************************************************************)
FrameShapes == {<<4, 3>>, <<15, 13>>}
\* Frame shapes and container sizes _get_optimal_size is applied to.
SizeShapes == {<<4, 3>>, <<15, 13>>, <<7, 25>>, <<1, 1>>, <<16, 9>>}
SizeGeometries == {1, 3, 8, 14, 15, 25} \X {1, 3, 14, 25}
File(n) == [str |-> TRUE, opens |-> TRUE, endless |-> FALSE, total |-> n,
            shape |-> <<15, 13>>, fps |-> 2]
Missing == [str |-> TRUE, opens |-> FALSE, endless |-> FALSE, total |-> MaxFrames,
            shape |-> <<15, 13>>, fps |-> 2]
Stream == [str |-> TRUE, opens |-> TRUE, endless |-> TRUE, total |-> 0,
           shape |-> <<4, 3>>, fps |-> 0]
Webcam == [str |-> FALSE, opens |-> TRUE, endless |-> TRUE, total |-> 0,
           shape |-> <<4, 3>>, fps |-> 0]

\* Constructor arguments: the two examples of __main__ (a webcam, flipped and
\* unpaced; a video file, paced or not), an unpaced live stream and a file
\* that does not open.
Arguments ==
    { [source |-> File(n), flipped |-> FALSE, use_fps_delay |-> d] :
          n \in 0..MaxFrames, d \in BOOLEAN }
    \cup { [source |-> Webcam, flipped |-> TRUE, use_fps_delay |-> FALSE],
           [source |-> Stream, flipped |-> FALSE, use_fps_delay |-> FALSE],
           [source |-> Missing, flipped |-> FALSE, use_fps_delay |-> FALSE] }

\* Sizes winfo_width()/winfo_height() of the container can report.
Geometries == {<<1, 1>>, <<15, 14>>}

VARIABLES
    filename_or_index,    \* the source (an element of Sources)
    flipped,              \* self.flipped
    use_fps_delay,        \* self.use_fps_delay
    frame_number,         \* self.frame_number of the controller
    _frame,               \* self._frame
    _image,               \* self._image, shown by the container
    _image_needs_update,  \* self._image_needs_update
    _frame_collector,     \* self._frame_collector: "None" or "Process"
    pipe,                 \* messages in the Pipe, oldest first
    proc,                 \* the frame-collector child process
    geometry,             \* <<winfo_width, winfo_height>> of the container
    event,                \* what the last call asked of the container: the
                          \*   virtual event it generated, "configure" when
                          \*   it set the image, or ""
    upc,                  \* position of the UI process inside update()
    reached_end,          \* local reached_end of the running update()
    lastOp,               \* history: the last call made in the UI process
    lastResult,           \* history: value returned by the last update()
    stale,                \* history: messages at the head of the pipe sent
                          \*   by a process that pause() has terminated
    call0,                \* history: frame_number and pipe when the running
                          \*   update() was called, and whether the child
                          \*   sent during the call
    tracing,              \* history: whether delivered is recorded
    delivered             \* history: messages received by update()

vars == <<filename_or_index, flipped, use_fps_delay, frame_number, _frame,
          _image, _image_needs_update, _frame_collector, pipe, proc, geometry,
          event, upc, reached_end, lastOp, lastResult, stale, call0, tracing,
          delivered>>

config == <<filename_or_index, flipped, use_fps_delay, tracing>>
ui == <<frame_number, _frame, _image, _image_needs_update, _frame_collector,
        geometry, event, upc, reached_end, lastOp, lastResult>>

NoCall == [fn |-> 0, queued |-> <<>>, sent |-> FALSE]

(***************************************************************************)
(* The capture backend (cv2.VideoCapture).                                 *)
(***************************************************************************)
\* capture.read() succeeds at position p of source src.
ReadSucceeds(src, p) == src.opens /\ (src.endless \/ p < src.total)

\* Position of the capture after a successful read at position p.
NextPos(p) == Min(p + 1, MaxFrameNumber)

\* (mutation of _create_capture: CAP_PROP_POS_FRAMES is never set)
_create_capture_unseeked(fn) == 0

\* _create_capture: the position the new capture reads first
\* (CAP_PROP_POS_FRAMES is set only when frame_number > 0).
_create_capture(fn) == IF fn > 0 THEN fn ELSE 0

\* Time is counted in ticks, TicksPerSecond of them to the second of
\* time.time() and time.sleep().
TicksPerSecond == 4

\* capture.get(cv2.CAP_PROP_FPS): 0 for a capture that is not open.
CAP_PROP_FPS(src) == IF src.opens THEN src.fps ELSE 0

\* duration_per_frame = 1 / (capture.get(cv2.CAP_PROP_FPS) or 1), in ticks.
duration_per_frame(src) ==
    TicksPerSecond \div (IF CAP_PROP_FPS(src) = 0 THEN 1 ELSE CAP_PROP_FPS(src))

\* The child process: not started, or the one play() started.
\* duration_to_next_frame is next_frame_time - time.time() at every moment,
\* in ticks.  sent and markers are history: whether it has sent a frame, and
\* how many times it has sent None (counted up to 2).
NoProcess == [pc |-> "none", frame_number |-> 0, pos |-> 0, frame |-> None,
              capture |-> "none", duration_to_next_frame |-> 0,
              sent |-> FALSE, markers |-> 0]

\* multiprocessing.Process(...).start(): the child gets a copy of the
\* controller (pickled through __reduce__), frame_number included.
SpawnProcess(fn) == [NoProcess EXCEPT !.pc = "create", !.frame_number = fn]

\* (mutation of Terminate: the handle is dropped, the child left running)
TerminateSkipped(p) == p

\* Process.terminate() and join(): the child stops wherever it is, without
\* running its finally clause; a child that has already returned stays as
\* it is.
Terminate(p) == IF p.pc = "exited" THEN p
                ELSE [p EXCEPT !.pc = "terminated", !.frame_number = 0, !.pos = 0,
                               !.frame = None, !.duration_to_next_frame = 0]

\* The child can still take a step.
Running(p) == p.pc \notin {"none", "exited", "terminated"}

(***************************************************************************)
(* Rendering.  The size table is filled by _get_optimal_size.              *)
(***************************************************************************)
(***************************************************************************)
(* Python floats (IEEE 754 binary64), as far as _get_optimal_size uses     *)
(* them.  A positive float is [m, e]: m its 53-digit binary significand,   *)
(* most significant digit first (m[1] = 1), e the exponent of the last     *)
(* digit of m; its value is m * 2^e.  Every operation rounds its exact     *)
(* result to nearest, ties to even.  Ints stay below 2^13.  0.0 is         *)
(* FloatZero.                                                              *)
(***************************************************************************)
Precision == 53
\* Long naturals are held in three limbs of LimbBits binary digits.
LimbBits == 18
Limb == 2^LimbBits

RECURSIVE BitLen(_)
\* Number of binary digits of the natural n.
BitLen(n) == IF n = 0 THEN 0 ELSE 1 + BitLen(n \div 2)

\* The w lowest binary digits of the natural n, most significant first.
BitsW(n, w) == [i \in 1..w |-> (n \div 2^(w - i)) % 2]

\* Binary digits of the natural n, without leading zeros.
Bits(n) == BitsW(n, BitLen(n))

RECURSIVE Val(_)
\* The natural a digit sequence of at most 30 digits stands for.
Val(bits) == IF bits = <<>> THEN 0
             ELSE 2 * Val(SubSeq(bits, 1, Len(bits) - 1)) + bits[Len(bits)]

Zeros(n) == [i \in 1..n |-> 0]

\* The float 0.0.
FloatZero == [m |-> Zeros(Precision), e |-> 0]

\* Some digit of bits from position i on is 1.
AnyFrom(bits, i) == \E j \in i..Len(bits) : bits[j] = 1

\* bits + 1, in the same number of digits (all zeros when every digit is 1).
Inc(bits) ==
    [i \in 1..Len(bits) |->
        IF \A j \in (i + 1)..Len(bits) : bits[j] = 1 THEN 1 - bits[i] ELSE bits[i]]

\* Round a digit sequence (first digit 1, at least Precision digits, last
\* digit worth 2^e; sticky: a nonzero remainder lies below it) to a float.
RoundToFloat(bits, e, sticky) ==
    LET keep == SubSeq(bits, 1, Precision)
        dropped == Len(bits) - Precision
        half == dropped > 0 /\ bits[Precision + 1] = 1
        rest == sticky \/ AnyFrom(bits, Precision + 2)
        up == half /\ (rest \/ keep[Precision] = 1)
    IN  IF up /\ ~AnyFrom(Inc(keep), 1)
        THEN [m |-> <<1>> \o Zeros(Precision - 1), e |-> e + dropped + 1]
        ELSE [m |-> IF up THEN Inc(keep) ELSE keep, e |-> e + dropped]

RECURSIVE Pow2Mod(_, _)
\* 2^i modulo b.
Pow2Mod(i, b) ==
    IF i = 0 THEN 1 % b
    ELSE (Pow2Mod(i \div 2, b) * Pow2Mod(i \div 2, b) * (1 + (i % 2))) % b

\* Long division of r by b (r < b): the remainder after i quotient digits
\* behind the binary point, and the i-th of these digits.
RemainderAfter(r, b, i) == (r * Pow2Mod(i, b)) % b
QuotientDigit(r, b, i) == (2 * RemainderAfter(r, b, i - 1)) \div b

RECURSIVE LeadingZeros(_, _)
\* For 0 < a < b: the number of zeros before the first 1 behind the binary
\* point of a / b.
LeadingZeros(a, b) == IF 2 * a >= b THEN 0 ELSE 1 + LeadingZeros(2 * a, b)

\* a / b for ints a >= 0, b > 0 (true division of two ints).
IntDiv(a, b) ==
    LET int == Bits(a \div b)
        z == IF a < b THEN LeadingZeros(a, b) ELSE 0
        \* digits behind the binary point that belong to the quotient's
        \* first Precision + 1 digits
        f == z + Precision + 1 - Len(int)
        bits == int \o [i \in 1..(f - z) |-> QuotientDigit(a % b, b, z + i)]
    IN  IF a = 0 THEN FloatZero
        ELSE RoundToFloat(bits, 0 - f, RemainderAfter(a % b, b, f) # 0)

\* The limbs <<high, middle, low>> of a digit sequence of at most
\* 3 * LimbBits digits.
Limbs(bits) ==
    LET p == Zeros(3 * LimbBits - Len(bits)) \o bits
    IN  <<Val(SubSeq(p, 1, LimbBits)), Val(SubSeq(p, LimbBits + 1, 2 * LimbBits)),
          Val(SubSeq(p, 2 * LimbBits + 1, 3 * LimbBits))>>

\* n * x for an int n > 0 and a float x.
IntTimesFloat(n, x) ==
    LET l == Limbs(x.m)
        low == n * l[3]
        middle == n * l[2] + low \div Limb
        high == n * l[1] + middle \div Limb
    IN  RoundToFloat(Bits(high) \o BitsW(middle, LimbBits) \o BitsW(low, LimbBits),
                     x.e, FALSE)

\* Limbs: x < y, 2 * x, and x - y (for x >= y).
LimbsLess(x, y) ==
    \/ x[1] < y[1]
    \/ x[1] = y[1] /\ x[2] < y[2]
    \/ x[1] = y[1] /\ x[2] = y[2] /\ x[3] < y[3]
LimbsTwice(x) ==
    <<2 * x[1] + (2 * x[2] + (2 * x[3]) \div Limb) \div Limb,
      (2 * x[2] + (2 * x[3]) \div Limb) % Limb,
      (2 * x[3]) % Limb>>
LimbsMinus(x, y) ==
    LET b3 == IF x[3] < y[3] THEN 1 ELSE 0
        b2 == IF x[2] < y[2] + b3 THEN 1 ELSE 0
    IN  <<x[1] - y[1] - b2, x[2] - y[2] - b3 + b2 * Limb, x[3] - y[3] + b3 * Limb>>

\* One step of long division by the limbs den: the remainder goes from r to
\* DivRem(r, den), the quotient gets the digit DivDigit(r, den).
DivDigit(r, den) == IF LimbsLess(LimbsTwice(r), den) THEN 0 ELSE 1
DivRem(r, den) == IF LimbsLess(LimbsTwice(r), den) THEN LimbsTwice(r)
                  ELSE LimbsMinus(LimbsTwice(r), den)

RECURSIVE DivBigDigits(_, _, _, _)
\* Long division by the limbs den: digits of the quotient after the ones in
\* bits, f of them behind the binary point, until Precision + 1 are known.
DivBigDigits(r, den, bits, f) ==
    IF Len(bits) = Precision + 1
    THEN [f |-> f, bits |-> bits, sticky |-> r # <<0, 0, 0>>]
    ELSE DivBigDigits(DivRem(r, den), den,
                      IF bits = <<>> /\ DivDigit(r, den) = 0 THEN bits
                      ELSE Append(bits, DivDigit(r, den)),
                      f + 1)

\* n / x for an int n >= 0 and a float x > 0.
IntOverFloat(n, x) ==
    LET shift == Precision - BitLen(n)
        num == Limbs(Bits(n) \o Zeros(shift))
        den == Limbs(x.m)
        first == ~LimbsLess(num, den)
        q == DivBigDigits(IF first THEN LimbsMinus(num, den) ELSE num, den,
                          IF first THEN <<1>> ELSE <<>>, 0)
    IN  IF n = 0 THEN FloatZero
        ELSE RoundToFloat(q.bits, 0 - q.f - shift - x.e, q.sticky)

\* x == y and x < y for floats.
FloatEq(x, y) == x.e = y.e /\ x.m = y.m
FloatLess(x, y) ==
    IF x = FloatZero \/ y = FloatZero THEN y # FloatZero
    ELSE \/ x.e < y.e
         \/ /\ x.e = y.e
            /\ \E i \in 1..Precision :
                  /\ x.m[i] < y.m[i]
                  /\ \A j \in 1..(i - 1) : x.m[j] = y.m[j]

\* math.ceil(x) for a float x whose value is below 2^30.
Ceil(x) ==
    LET s == 0 - x.e
    IN  IF x = FloatZero THEN 0
        ELSE IF s >= Precision THEN 1
        ELSE Val(SubSeq(x.m, 1, Precision - s))
             + (IF AnyFrom(x.m, Precision - s + 1) THEN 1 ELSE 0)

_get_optimal_size(shape, geom) ==
    LET max_width == geom[1]
        max_height == geom[2]
        video_aspect_ratio == IntDiv(shape[1], shape[2])
        target_aspect_ratio == IntDiv(max_width, max_height)
    IN  IF FloatEq(video_aspect_ratio, target_aspect_ratio)
        THEN <<max_width, max_height>>
        ELSE IF FloatLess(video_aspect_ratio, target_aspect_ratio)
             THEN <<Ceil(IntTimesFloat(max_height, video_aspect_ratio)), max_height>>
             ELSE <<max_width, Ceil(IntOverFloat(max_width, video_aspect_ratio))>>

\* _get_optimal_size, tabulated where Spec applies it.
OptimalSize == [s \in FrameShapes, g \in Geometries |-> _get_optimal_size(s, g)]
SizeOf(shape, geom) ==
    IF shape \in FrameShapes /\ geom \in Geometries THEN OptimalSize[shape, geom]
    ELSE _get_optimal_size(shape, geom)

\* max_width / max_height of _get_optimal_size raises ZeroDivisionError.
ZeroDivision(geom) == geom[2] = 0

\* cv2.resize raises cv2.error for a target size with a dimension below 1.
ResizeFails(size) == size[1] < 1 \/ size[2] < 1

\* The exception _update_image raises, "" when it returns.
Raises(frame, shape, geom) ==
    IF frame = None THEN ""
    ELSE IF ZeroDivision(geom) THEN "ZeroDivisionError"
    ELSE IF ResizeFails(SizeOf(shape, geom)) THEN "cv2.error"
    ELSE ""

\* _update_image: the image the container is configured with.
_update_image(frame, shape, geom, flip) ==
    IF frame # None
    THEN [kind |-> "image", pos |-> frame.pos, size |-> SizeOf(shape, geom),
          flipped |-> flip]
    ELSE NoImage

\* (mutation of poll: the last queued message is not reported)
poll_misses_last(p) == Len(p) > 1

\* _frame_receiver.poll() on the pipe contents p.
poll(p) == Len(p) > 0

\* _on_frame_received: the new frame_number.
_on_frame_received(fn) == Min(fn + 1, MaxFrameNumber)

\* Length of the delivered history.
LogLen == MaxFrames + 2
Record(log, m) == IF tracing /\ Len(log) < LogLen THEN Append(log, m) ELSE log

(***************************************************************************)
(* Construction: __init__ in the main process.                             *)
(***************************************************************************)
\* _collect_first_frame: the frame __init__ preloads from a str source.
_collect_first_frame(src) ==
    IF src.str /\ ReadSucceeds(src, _create_capture(0))
    THEN Frame(_create_capture(0)) ELSE None

\* __init__ with arguments drawn from A.
Construct(A) ==
    /\ \E a \in A :
          /\ filename_or_index = a.source
          /\ flipped = a.flipped
          /\ use_fps_delay = a.use_fps_delay
    /\ frame_number = 0
    /\ _frame = _collect_first_frame(filename_or_index)
    /\ _image = NoImage
    /\ _image_needs_update = (_collect_first_frame(filename_or_index) # None)
    /\ _frame_collector = "None"
    /\ pipe = <<>>
    /\ proc = NoProcess
    /\ geometry = <<1, 1>>
    /\ event = ""
    /\ upc = "idle"
    /\ reached_end = FALSE
    /\ lastOp = "init"
    /\ lastResult = "none"
    /\ stale = 0
    /\ call0 = NoCall
    /\ delivered = <<>>

InitController == Construct(Arguments)

Init == InitController /\ tracing = FALSE

(***************************************************************************)
(* Calls made in the UI process.  They run one at a time: none starts      *)
(* while update() is running.                                              *)
(***************************************************************************)
\* (mutation of PlayBody: the test of the handle is missing)
PlayBodyUnguarded ==
    /\ proc' = SpawnProcess(frame_number)
    /\ _frame_collector' = "Process"
    /\ event' = "<<PLAY>>"
    /\ stale' = stale

\* Body of play().
PlayBody ==
    IF _frame_collector = "None"
    THEN /\ proc' = SpawnProcess(frame_number)
         /\ _frame_collector' = "Process"
         /\ event' = "<<PLAY>>"
         /\ stale' = stale
    ELSE /\ event' = ""
         /\ UNCHANGED <<proc, _frame_collector, stale>>

\* Body of pause().
PauseBody ==
    IF _frame_collector # "None"
    THEN /\ event' = "<<PAUSE>>"
         /\ proc' = Terminate(proc)
         /\ _frame_collector' = "None"
         /\ stale' = Len(pipe)
    ELSE /\ event' = ""
         /\ UNCHANGED <<proc, _frame_collector, stale>>

\* (mutation of play: playback restarts at frame 0)
play_restarts ==
    /\ upc = "idle"
    /\ PlayBody
    /\ frame_number' = 0
    /\ lastOp' = "play"
    /\ UNCHANGED <<config, _frame, _image, _image_needs_update,
                   pipe, geometry, upc, reached_end, lastResult, call0, delivered>>

\* (mutation of play: a child that has returned counts as no child)
play_after_exit ==
    /\ upc = "idle"
    /\ IF proc.pc = "exited" THEN PlayBodyUnguarded ELSE PlayBody
    /\ lastOp' = "play"
    /\ UNCHANGED <<config, frame_number, _frame, _image, _image_needs_update,
                   pipe, geometry, upc, reached_end, lastResult, call0, delivered>>

play ==
    /\ upc = "idle"
    /\ PlayBody
    /\ lastOp' = "play"
    /\ UNCHANGED <<config, frame_number, _frame, _image, _image_needs_update,
                   pipe, geometry, upc, reached_end, lastResult, call0, delivered>>

pause ==
    /\ upc = "idle"
    /\ PauseBody
    /\ lastOp' = "pause"
    /\ UNCHANGED <<config, frame_number, _frame, _image, _image_needs_update,
                   pipe, geometry, upc, reached_end, lastResult, call0, delivered>>

\* (mutation of toggle_play_pause: it calls play() whatever the handle is)
toggle_always_plays ==
    /\ upc = "idle"
    /\ PlayBody
    /\ lastOp' = "toggle_play_pause"
    /\ UNCHANGED <<config, frame_number, _frame, _image, _image_needs_update,
                   pipe, geometry, upc, reached_end, lastResult, call0, delivered>>

toggle_play_pause ==
    /\ upc = "idle"
    /\ IF _frame_collector = "None" THEN PlayBody ELSE PauseBody
    /\ lastOp' = "toggle_play_pause"
    /\ UNCHANGED <<config, frame_number, _frame, _image, _image_needs_update,
                   pipe, geometry, upc, reached_end, lastResult, call0, delivered>>

reset ==
    /\ upc = "idle"
    /\ PauseBody
    /\ frame_number' = 0
    /\ lastOp' = "reset"
    /\ UNCHANGED <<config, _frame, _image, _image_needs_update,
                   pipe, geometry, upc, reached_end, lastResult, call0, delivered>>

\* The <Configure> binding: the container got a size of G; set_image_dirty().
Configure(G) ==
    /\ upc = "idle"
    /\ \E g \in G : geometry' = g
    /\ _image_needs_update' = TRUE
    /\ lastOp' = "configure"
    /\ event' = ""
    /\ UNCHANGED <<config, frame_number, _frame, _image, _frame_collector, pipe,
                   proc, upc, reached_end, lastResult, stale, call0, delivered>>

(***************************************************************************)
(* update(): entry, one iteration of the drain loop, exit.                 *)
(***************************************************************************)
UpdateCall ==
    /\ upc = "idle"
    /\ upc' = "drain"
    /\ reached_end' = FALSE
    /\ lastOp' = "update"
    /\ event' = ""
    /\ call0' = [fn |-> frame_number, queued |-> pipe, sent |-> FALSE]
    /\ UNCHANGED <<config, frame_number, _frame, _image, _image_needs_update,
                   _frame_collector, pipe, proc, geometry, lastResult, stale,
                   delivered>>

\* (mutation of UpdateRecv: None is taken for a frame)
UpdateRecvUnchecked ==
    /\ upc = "drain"
    /\ poll(pipe)
    /\ pipe' = Tail(pipe)
    /\ frame_number' = _on_frame_received(frame_number)
    /\ _frame' = Head(pipe)
    /\ _image_needs_update' = TRUE
    /\ reached_end' = reached_end
    /\ stale' = IF stale > 0 THEN stale - 1 ELSE 0
    /\ delivered' = Record(delivered, Head(pipe))
    /\ UNCHANGED <<config, _image, _frame_collector, proc, geometry, event, upc,
                   lastOp, lastResult, call0>>

\* poll() is true: recv() and the branch on the message.
UpdateRecv ==
    /\ upc = "drain"
    /\ poll(pipe)
    /\ pipe' = Tail(pipe)
    /\ IF Head(pipe) # None
       THEN /\ frame_number' = _on_frame_received(frame_number)
            /\ _frame' = Head(pipe)
            /\ _image_needs_update' = TRUE
            /\ reached_end' = reached_end
       ELSE /\ reached_end' = TRUE
            /\ UNCHANGED <<frame_number, _frame, _image_needs_update>>
    /\ stale' = IF stale > 0 THEN stale - 1 ELSE 0
    /\ delivered' = Record(delivered, Head(pipe))
    /\ UNCHANGED <<config, _image, _frame_collector, proc, geometry, event, upc,
                   lastOp, lastResult, call0>>

\* (mutation of UpdateReturn: _update_image is called whatever the flag is)
UpdateReturnAlwaysRenders ==
    /\ upc = "drain"
    /\ ~poll(pipe)
    /\ _image_needs_update' = FALSE
    /\ _image' = _update_image(_frame, filename_or_index.shape, geometry, flipped)
    /\ event' = "configure"
    /\ lastResult' = IF reached_end THEN "false" ELSE "true"
    /\ upc' = "idle"
    /\ call0' = NoCall
    /\ UNCHANGED <<config, frame_number, _frame, _frame_collector, pipe, proc,
                   geometry, reached_end, lastOp, stale, delivered>>

\* poll() is false: render if dirty, return not reached_end.  An exception
\* of _update_image leaves update() before _image is assigned.
UpdateReturn ==
    /\ upc = "drain"
    /\ ~poll(pipe)
    /\ IF _image_needs_update
       THEN /\ _image_needs_update' = FALSE
            /\ IF Raises(_frame, filename_or_index.shape, geometry) # ""
               THEN /\ _image' = _image
                    /\ event' = ""
                    /\ lastResult' = Raises(_frame, filename_or_index.shape,
                                            geometry)
               ELSE /\ _image' = _update_image(_frame, filename_or_index.shape,
                                               geometry, flipped)
                    /\ event' = "configure"
                    /\ lastResult' = IF reached_end THEN "false" ELSE "true"
       ELSE /\ UNCHANGED <<_image_needs_update, _image>>
            /\ event' = ""
            /\ lastResult' = IF reached_end THEN "false" ELSE "true"
    /\ upc' = "idle"
    /\ call0' = NoCall
    /\ UNCHANGED <<config, frame_number, _frame, _frame_collector, pipe, proc,
                   geometry, reached_end, lastOp, stale, delivered>>

(***************************************************************************)
(* The child process: _collect_frames.                                     *)
(***************************************************************************)
\* A message of the child enters the pipe.
Sent(m) ==
    /\ Len(pipe) < MaxQueue
    /\ pipe' = Append(pipe, m)
    /\ call0' = IF upc = "drain" THEN [call0 EXCEPT !.sent = TRUE] ELSE call0

\* _create_capture, and next_frame_time = time.time() when pacing.
ProcCreate ==
    /\ proc.pc = "create"
    /\ proc' = [proc EXCEPT !.pc = "read", !.capture = "open",
                            !.pos = _create_capture(proc.frame_number),
                            !.duration_to_next_frame = 0]
    /\ UNCHANGED <<config, ui, pipe, stale, call0, delivered>>

ProcRead ==
    /\ proc.pc = "read"
    /\ IF ReadSucceeds(filename_or_index, proc.pos)
       THEN proc' = [proc EXCEPT !.pc = "send", !.frame = Frame(proc.pos),
                                 !.pos = NextPos(proc.pos)]
       ELSE proc' = [proc EXCEPT !.pc = "send_none"]
    /\ UNCHANGED <<config, ui, pipe, stale, call0, delivered>>

\* (mutation of Pace: the deadline is counted from the current time)
PaceFromNow(p) ==
    [p EXCEPT !.duration_to_next_frame = duration_per_frame(filename_or_index),
              !.pc = "sleep"]

\* Lines 109-112 in the child p: next_frame_time += duration_per_frame, and
\* the branch on duration_to_next_frame > 0.
Pace(p) ==
    IF use_fps_delay
    THEN LET d == p.duration_to_next_frame + duration_per_frame(filename_or_index)
         IN  [p EXCEPT !.duration_to_next_frame = d,
                       !.pc = IF d > 0 THEN "sleep" ELSE "read"]
    ELSE [p EXCEPT !.pc = "read"]

\* sender.send(frame), and the pacing arithmetic that follows it.
ProcSend ==
    /\ proc.pc = "send"
    /\ Sent(proc.frame)
    /\ proc' = Pace([proc EXCEPT !.frame = None, !.sent = TRUE])
    /\ UNCHANGED <<config, ui, stale, delivered>>

\* (mutation of ProcSendNone: the loop is left without sending None)
ProcBreaksSilently ==
    /\ proc.pc = "send_none"
    /\ proc' = [proc EXCEPT !.pc = "release"]
    /\ UNCHANGED <<config, ui, pipe, stale, call0, delivered>>

\* (mutation of ProcSendNone: the break after send(None) is missing)
ProcSendNoneContinues ==
    /\ proc.pc = "send_none"
    /\ Sent(None)
    /\ proc' = [proc EXCEPT !.pc = "read",
                            !.markers = Min(proc.markers + 1, 2)]
    /\ UNCHANGED <<config, ui, stale, delivered>>

ProcSendNone ==
    /\ proc.pc = "send_none"
    /\ Sent(None)
    /\ proc' = [proc EXCEPT !.pc = "release",
                            !.markers = Min(proc.markers + 1, 2)]
    /\ UNCHANGED <<config, ui, stale, delivered>>

\* time.sleep(duration_to_next_frame): the child goes on when that much time
\* has passed, which is at next_frame_time.
ProcSleep ==
    /\ proc.pc = "sleep"
    /\ proc' = [proc EXCEPT !.pc = "read", !.duration_to_next_frame = 0]
    /\ UNCHANGED <<config, ui, pipe, stale, call0, delivered>>

\* One tick of time passes while the paced child is at work (reading,
\* sending, or waiting for the operating system to run it).
Tick ==
    /\ use_fps_delay
    /\ proc.pc \in {"read", "send", "send_none"}
    /\ proc.duration_to_next_frame > 0 - MaxLag
    /\ proc' = [proc EXCEPT !.duration_to_next_frame = @ - 1]
    /\ UNCHANGED <<config, ui, pipe, stale, call0, delivered>>

ProcRelease ==
    /\ proc.pc = "release"
    /\ proc' = [proc EXCEPT !.pc = "exited", !.capture = "released",
                            !.frame_number = 0, !.pos = 0,
                            !.duration_to_next_frame = 0]
    /\ UNCHANGED <<config, ui, pipe, stale, call0, delivered>>

set_image_dirty == Configure(Geometries)

Update == UpdateCall \/ UpdateRecv \/ UpdateReturn
Collect == ProcCreate \/ ProcRead \/ ProcSend \/ ProcSendNone \/ ProcSleep
           \/ ProcRelease

Next ==
    \/ play
    \/ pause
    \/ toggle_play_pause
    \/ reset
    \/ set_image_dirty
    \/ UpdateCall
    \/ UpdateRecv
    \/ UpdateReturn
    \/ ProcCreate
    \/ ProcRead
    \/ ProcSend
    \/ ProcSendNone
    \/ ProcSleep
    \/ ProcRelease

Spec == Init /\ [][Next]_vars

(***************************************************************************)
(* The driver of __main__: play() once after construction, then update()   *)
(* over and over, the child running beside it.                             *)
(***************************************************************************)
MainInit == InitController /\ tracing = TRUE

\* webcam.play() of line 195, and webcam.update() of the loop of lines
\* 209-212 that follows it.
PlayOnce == lastOp = "init" /\ play
LoopUpdateCall == lastOp # "init" /\ UpdateCall
LoopUpdate == LoopUpdateCall \/ UpdateRecv \/ UpdateReturn

MainNext ==
    \/ PlayOnce
    \/ LoopUpdateCall
    \/ UpdateRecv
    \/ UpdateReturn
    \/ ProcCreate
    \/ ProcRead
    \/ ProcSend
    \/ ProcSendNone
    \/ ProcSleep
    \/ ProcRelease

\* The main loop never stops calling update() and the child process is
\* scheduled by the operating system.
MainSpec ==
    MainInit /\ [][MainNext]_vars
    /\ WF_vars(PlayOnce) /\ WF_vars(LoopUpdate) /\ WF_vars(Collect)

(***************************************************************************)
(* _get_optimal_size on its own: a loaded frame of any shape of SizeShapes *)
(* is rendered into a container of any size of SizeGeometries.             *)
(***************************************************************************)
SizeArguments ==
    { [source |-> [File(1) EXCEPT !.shape = sh], flipped |-> FALSE,
       use_fps_delay |-> FALSE] : sh \in SizeShapes }

SizeInit == Construct(SizeArguments) /\ tracing = FALSE

Resize == Configure(SizeGeometries)

SizeNext ==
    \/ Resize
    \/ UpdateCall
    \/ UpdateReturn

SizeSpec == SizeInit /\ [][SizeNext]_vars

(***************************************************************************)
(* Paced playback with time passing: a file whose backend reports any of   *)
(* Rates as its frame rate is played, paused and played again while        *)
(* update() drains the pipe and the clock ticks.                           *)
(***************************************************************************)
Rates == {0, 1, 2, 4}

PacedArguments ==
    { [source |-> [File(n) EXCEPT !.fps = r], flipped |-> FALSE,
       use_fps_delay |-> TRUE] : n \in 1..MaxFrames, r \in Rates }

PacedInit == Construct(PacedArguments) /\ tracing = FALSE

PacedNext ==
    \/ play
    \/ pause
    \/ UpdateCall
    \/ UpdateRecv
    \/ UpdateReturn
    \/ ProcCreate
    \/ ProcRead
    \/ ProcSend
    \/ ProcSendNone
    \/ ProcSleep
    \/ ProcRelease
    \/ Tick

PacedSpec == PacedInit /\ [][PacedNext]_vars

(***************************************************************************)
(* The same with containers that report a width or a height of 0 or 1.     *)
(***************************************************************************)
SmallGeometries == {0, 1, 15} \X {0, 1, 14}

Shrink == Configure(SmallGeometries)

SmallNext ==
    \/ Shrink
    \/ UpdateCall
    \/ UpdateReturn

SmallSpec == SizeInit /\ [][SmallNext]_vars

(***************************************************************************)
(* Properties.                                                             *)
(***************************************************************************)
\* Steps of the model, told apart by what they change.
IsRecv == upc = "drain" /\ Len(pipe') < Len(pipe)
IsReturn == upc = "drain" /\ upc' = "idle"
IsSpawn == _frame_collector = "None" /\ _frame_collector' = "Process"
IsSend == Len(pipe') > Len(pipe)
IsRender == IsReturn /\ _image_needs_update /\ _frame # None

AllFrames(q) == \A i \in 1..Len(q) : q[i] # None

\* C1: frame_number never decreases from one state to the next, except in a
\* step of reset(), which sets it to 0.
C1_FrameNumberMonotonic ==
    [][frame_number' >= frame_number \/ (reset /\ frame_number' = 0)]_vars

\* reset() has run after frames were counted, and frame_number is 0 again.
C1_Witness ==
    /\ lastOp = "reset"
    /\ frame_number = 0
    /\ _frame # None
    /\ _frame.pos >= 1

\* C2 (as claimed): once update() has returned false, every later update()
\* returns false, and when update() returns false nothing is left in the
\* pipe that a later call could receive.
C2_EndOfStreamFinal ==
    [][/\ lastResult = "false" => lastResult' = "false"
       /\ (IsReturn /\ reached_end) => pipe' = <<>>]_vars

\* C3: an update() called with M >= 1 frames queued, during which the
\* child sends nothing, returns with frame_number raised by M, _frame the
\* last of the M frames, and an empty pipe.
C3_DrainsToExhaustion ==
    [][(/\ IsReturn
        /\ ~call0.sent
        /\ Len(call0.queued) >= 1
        /\ AllFrames(call0.queued)
        /\ call0.fn + Len(call0.queued) <= MaxFrameNumber)
       => (/\ frame_number' = call0.fn + Len(call0.queued)
           /\ _frame' = call0.queued[Len(call0.queued)]
           /\ pipe' = <<>>)]_vars

\* update() has drained two or more queued frames and is about to return.
C3_Witness ==
    /\ upc = "drain"
    /\ ~poll(pipe)
    /\ ~call0.sent
    /\ Len(call0.queued) >= 2
    /\ AllFrames(call0.queued)
    /\ frame_number = call0.fn + Len(call0.queued)

\* The frames 0..n-1 in order, then None.
WholeFile(n) == [i \in 1..(n + 1) |-> IF i <= n THEN Frame(i - 1) ELSE None]
IsPrefix(p, q) == Len(p) <= Len(q) /\ \A i \in 1..Len(p) : p[i] = q[i]
UnpacedFile ==
    /\ filename_or_index.opens
    /\ ~filename_or_index.endless
    /\ ~use_fps_delay

\* C4: for an unpaced file of N frames, play() and then update() calls
\* only: what update() receives is always a prefix of frames 0..N-1 followed
\* by one None, frame_number never exceeds N, and in the end all of it has
\* been received and frame_number is N.
C4_DeliversWholeFile ==
    /\ [](UnpacedFile =>
            /\ IsPrefix(delivered, WholeFile(filename_or_index.total))
            /\ frame_number <= filename_or_index.total)
    /\ <>[](UnpacedFile =>
            /\ delivered = WholeFile(filename_or_index.total)
            /\ frame_number = filename_or_index.total)

\* The longest file has been received whole.
C4_Witness ==
    /\ UnpacedFile
    /\ filename_or_index.total = MaxFrames
    /\ delivered = WholeFile(MaxFrames)
    /\ frame_number = MaxFrames

\* C5: a child spawned by play() right after pause() gets the frame_number
\* of that moment as its starting offset, one spawned right after reset()
\* gets 0; the child opens its capture at its offset, and the first frame a
\* child sends is the frame at its offset.
C5_ResumeOffset ==
    [][/\ (IsSpawn /\ lastOp = "pause") => proc'.frame_number = frame_number
       /\ (IsSpawn /\ lastOp = "reset") => proc'.frame_number = 0
       /\ (proc.pc = "create" /\ proc'.pc = "read")
             => proc'.pos = proc.frame_number
       /\ (IsSend /\ ~proc.sent /\ proc'.sent)
             => pipe'[Len(pipe')] = Frame(proc.frame_number)]_vars

\* A child resumed at a position N >= 1 has sent its first frame.
C5_Witness ==
    /\ lastOp = "play"
    /\ proc.sent
    /\ proc.frame_number >= 1
    /\ proc.frame_number = frame_number
    /\ pipe # <<>>
    /\ pipe[Len(pipe)] = Frame(proc.frame_number)

\* C6 (as claimed): every call of update() returns.
C6_UpdateReturns == (upc = "drain") ~> (upc = "idle")

\* C7 (as claimed): while a child spawned by play() is the controller's
\* child, update() receives no message sent by a child that an earlier
\* pause() or reset() terminated.
C7_FreshChannel ==
    [][(IsRecv /\ _frame_collector = "Process") => stale = 0]_vars

\* C8: when pause() or reset() has returned, the child is not running and
\* the handle is None; after reset() frame_number is 0.
C8_StopIsSynchronous ==
    /\ lastOp \in {"pause", "reset"} => ~Running(proc) /\ _frame_collector = "None"
    /\ lastOp = "reset" => frame_number = 0

\* pause() has terminated a child that had sent a message.
C8_Witness ==
    /\ lastOp = "pause"
    /\ proc.pc = "terminated"
    /\ pipe # <<>>

\* C9: with a source that does not open, a child sends nothing but one
\* None and exits; an update() that receives it returns false and leaves
\* frame_number and _frame as they were.
C9_Unopened ==
    [][~filename_or_index.opens =>
        /\ IsSend => pipe'[Len(pipe')] = None /\ proc'.pc = "release"
        /\ proc'.markers <= 1 /\ ~proc'.sent
        /\ proc'.pc = "exited" => proc'.markers = 1
        /\ (IsReturn /\ (call0.queued # <<>> \/ call0.sent))
              => /\ lastResult' = "false"
                 /\ frame_number' = call0.fn
                 /\ _frame' = _frame
                 /\ _frame = _collect_first_frame(filename_or_index)]_vars

\* The child of a source that does not open has exited after one None, and
\* update() has returned false.
C9_Witness ==
    /\ ~filename_or_index.opens
    /\ proc.pc = "exited"
    /\ proc.markers = 1
    /\ lastOp = "update"
    /\ upc = "idle"
    /\ lastResult = "false"
    /\ frame_number = 0
    /\ _frame = None

\* The size the claim gives: exact arithmetic on the ratios.
CeilDiv(a, b) == (a + b - 1) \div b
ExactSize(shape, geom) ==
    IF shape[1] * geom[2] = geom[1] * shape[2] THEN geom
    ELSE IF shape[1] * geom[2] < geom[1] * shape[2]
         THEN <<CeilDiv(geom[2] * shape[1], shape[2]), geom[2]>>
         ELSE <<geom[1], CeilDiv(geom[1] * shape[2], shape[1])>>

\* C10 (as claimed): a frame of shape (fw, fh) is rendered into a container
\* of size (gw, gh) at size (gw, gh) when fw/fh = gw/gh, at
\* (ceil(gh*fw/fh), gh) when fw/fh < gw/gh, at (gw, ceil(gw*fh/fw))
\* otherwise, and both dimensions are at least 1.
C10_OptimalSize ==
    [][IsRender =>
        /\ _image'.size = ExactSize(filename_or_index.shape, geometry)
        /\ _image'.size[1] >= 1
        /\ _image'.size[2] >= 1]_vars

\* C11 (as claimed): rendering into a container whose width or height is 0
\* or 1 does not fail, and the size the frame is resampled to is at least 1
\* in both dimensions.
C11_SmallGeometry ==
    [][(/\ IsRender
        /\ (geometry[1] \in {0, 1} \/ geometry[2] \in {0, 1}))
       => (/\ lastResult' \in {"true", "false"}
           /\ _image' = _update_image(_frame, filename_or_index.shape, geometry,
                                      flipped)
           /\ ~ResizeFails(_image'.size))]_vars

\* C12: toggle_play_pause() does what play() does when the handle is None
\* (a child is spawned at the current frame_number, <<PLAY>> is generated)
\* and what pause() does otherwise (<<PAUSE>> is generated, the child is
\* terminated, the handle cleared), and changes nothing else; a toggle that
\* follows a toggle from the stopped state leaves the controller stopped,
\* frame_number not lowered.
C12_Toggle ==
    [][toggle_play_pause =>
        /\ _frame_collector = "None" =>
              /\ _frame_collector' = "Process"
              /\ event' = "<<PLAY>>"
              /\ proc' = SpawnProcess(frame_number)
        /\ _frame_collector # "None" =>
              /\ _frame_collector' = "None"
              /\ event' = "<<PAUSE>>"
              /\ ~Running(proc')
              /\ proc' = Terminate(proc)
        /\ UNCHANGED <<frame_number, _frame, _image, _image_needs_update, pipe,
                       geometry>>
        /\ (lastOp = "toggle_play_pause" /\ event = "<<PLAY>>") =>
              /\ _frame_collector' = "None"
              /\ ~Running(proc')
              /\ frame_number' >= frame_number]_vars

\* A toggle has stopped a child that had sent a frame.
C12_Witness ==
    /\ lastOp = "toggle_play_pause"
    /\ event = "<<PAUSE>>"
    /\ _frame_collector = "None"
    /\ proc.pc = "terminated"
    /\ proc.sent

\* C13 (as claimed): a child that has ended, by leaving its loop or by
\* pause()/reset(), has released the capture it opened, and release() is
\* only ever applied to an open capture (so not twice).
C13_ReleasedOnce ==
    [][/\ (~Running(proc') /\ proc'.capture # "none")
             => proc'.capture = "released"
       /\ (proc'.capture = "released" /\ proc.capture # "released")
             => proc.capture = "open"]_vars

\* C14: a child sends each frame it has read before it reads again, as
\* the next message and in the order of the capture positions; it sends None
\* after a failed read and only then, at most once, and sends nothing after
\* it.
C14_ProducerOrder ==
    [][/\ (proc.pc = "read" /\ proc'.pc = "send")
             => /\ ReadSucceeds(filename_or_index, proc.pos)
                /\ proc'.frame = Frame(proc.pos)
                /\ proc'.pos = NextPos(proc.pos)
       /\ (proc.pc = "send" /\ proc'.pc \notin {"send", "terminated"})
             => /\ IsSend
                /\ pipe' = Append(pipe, proc.frame)
                /\ proc.frame # None
                /\ proc'.pos = proc.pos
       /\ (proc.pc = "read" /\ proc'.pc \notin {"read", "send", "terminated"})
             => /\ ~ReadSucceeds(filename_or_index, proc.pos)
                /\ proc'.pc = "send_none"
       /\ (proc.pc = "send_none" /\ proc'.pc \notin {"send_none", "terminated"})
             => /\ pipe' = Append(pipe, None)
                /\ proc'.pc = "release"
       /\ IsSend => /\ proc.markers = 0
                    /\ proc.pc \in {"send", "send_none"}
                    /\ (pipe'[Len(pipe')] = None) = (proc.pc = "send_none")
       /\ proc'.markers <= 1]_vars

\* A child has sent the frames of the longest file and then None, and has
\* left its loop.
C14_Witness ==
    /\ filename_or_index.opens
    /\ filename_or_index.total = MaxFrames
    /\ proc.pc = "release"
    /\ proc.frame_number = 0
    /\ proc.pos = MaxFrames
    /\ proc.markers = 1
    /\ proc.sent
    /\ pipe # <<>>
    /\ pipe[Len(pipe)] = None

\* C15 (as claimed): once a call of update() has received None, it
\* receives nothing more, so what is queued behind the None changes neither
\* frame_number nor _frame in that call.
C15_StopsAtMarker ==
    [][(upc = "drain" /\ reached_end)
          => /\ ~IsRecv
             /\ frame_number' = frame_number
             /\ _frame' = _frame]_vars

\* C16: update() calls _update_image exactly when _image_needs_update is
\* set once the pipe is drained, and returns with the flag cleared; the flag
\* is set by the preloaded first frame at construction and afterwards only
\* by a received frame or by set_image_dirty(), and the image of the
\* container is set nowhere but in update().
C16_RendersIffDirty ==
    /\ _image_needs_update = (_collect_first_frame(filename_or_index) # None)
    /\ [][/\ IsReturn =>
              /\ (event' = "configure") = _image_needs_update
              /\ _image' = IF _image_needs_update
                           THEN _update_image(_frame, filename_or_index.shape,
                                              geometry, flipped)
                           ELSE _image
              /\ ~_image_needs_update'
          /\ (_image_needs_update' /\ ~_image_needs_update)
                => \/ IsRecv /\ Head(pipe) # None
                   \/ set_image_dirty
          /\ (~_image_needs_update' /\ _image_needs_update) => IsReturn
          /\ (_image' # _image \/ (event' = "configure" /\ event # "configure"))
                => IsReturn]_vars

\* update() has returned after rendering a frame it received.
C16_Witness ==
    /\ lastOp = "update"
    /\ upc = "idle"
    /\ event = "configure"
    /\ ~_image_needs_update
    /\ _image.kind = "image"
    /\ _image.pos >= 1
    /\ _image.pos = _frame.pos

\* C17: with use_fps_delay, every sent frame moves the child's deadline
\* on by duration_per_frame, however far behind the current time it is; the
\* child then sleeps exactly when the deadline lies in the future, for the
\* positive time that is left until it; duration_per_frame is one second
\* divided by the frame rate the backend reports, by 1 when it reports 0.
C17_Pacing ==
    [][use_fps_delay =>
        /\ (proc.pc = "send" /\ proc'.pc \in {"sleep", "read"})
              => /\ proc'.duration_to_next_frame
                       = proc.duration_to_next_frame
                         + duration_per_frame(filename_or_index)
                 /\ (proc'.pc = "sleep") = (proc'.duration_to_next_frame > 0)
        /\ (proc.pc = "sleep" /\ proc'.pc = "read")
              => /\ proc.duration_to_next_frame > 0
                 /\ proc'.duration_to_next_frame = 0
        /\ proc'.pc = "sleep" => proc.pc \in {"send", "sleep"}
        /\ IF filename_or_index.fps = 0
           THEN duration_per_frame(filename_or_index) = TicksPerSecond
           ELSE duration_per_frame(filename_or_index) * filename_or_index.fps
                   = TicksPerSecond]_vars

\* A paced child has sent a frame so late that its new deadline had passed
\* already, and reads on without sleeping.
C17_Witness ==
    /\ use_fps_delay
    /\ proc.pc = "read"
    /\ proc.sent
    /\ proc.duration_to_next_frame < 0
    /\ proc.duration_to_next_frame > 0 - MaxLag
    /\ pipe # <<>>

\* C18 (as claimed): with a file, every frame update() receives is the
\* frame at capture position frame_number, frame_number being the value just
\* before the receipt; frames are then counted once each, and the count stays
\* within the number of frames of the file.
C18_CaptureOrder ==
    [][(/\ filename_or_index.opens
        /\ ~filename_or_index.endless
        /\ IsRecv
        /\ Head(pipe) # None)
       => (/\ Head(pipe).pos = frame_number
           /\ frame_number' <= filename_or_index.total)]_vars

\* C19: a child runs only while the handle is not None, and play(),
\* pause(), toggle_play_pause(), reset() and update() start a child only
\* when none is running and the handle is None, so that never more than the
\* one child of the handle runs.
C19_OneProducer ==
    /\ [](Running(proc) => _frame_collector = "Process")
    /\ [][(proc' # proc /\ proc'.pc = "create")
            => (~Running(proc) /\ IsSpawn)]_vars

\* A second child runs while messages of the first, which pause() has
\* terminated, are still in the pipe.
C19_Witness ==
    /\ _frame_collector = "Process"
    /\ Running(proc)
    /\ proc.capture = "open"
    /\ stale > 0

\* C20: play() with a handle that is not None starts no child, generates
\* no <<PLAY>> and changes nothing, also when the child of the handle has
\* returned at the end of the stream; pause() with a handle of None generates
\* no <<PAUSE>> and changes nothing; the handle becomes None only in a call
\* that generates <<PAUSE>>, so only after it does play() start a child again.
C20_NoOps ==
    [][/\ (play /\ _frame_collector # "None")
             => /\ event' = ""
                /\ UNCHANGED <<frame_number, _frame, _image, _image_needs_update,
                               _frame_collector, pipe, proc, geometry>>
       /\ (pause /\ _frame_collector = "None")
             => /\ event' = ""
                /\ UNCHANGED <<frame_number, _frame, _image, _image_needs_update,
                               _frame_collector, pipe, proc, geometry>>
       /\ (_frame_collector # "None" /\ _frame_collector' = "None")
             => event' = "<<PAUSE>>"
       /\ (proc' # proc /\ proc'.pc = "create") => _frame_collector = "None"]_vars

\* The last call was a play() that did nothing, and the child of the handle
\* has returned at the end of the stream.
C20_Witness ==
    /\ lastOp = "play"
    /\ event = ""
    /\ _frame_collector = "Process"
    /\ proc.pc = "exited"
    /\ proc.markers = 1

TypeOK ==
    /\ frame_number \in 0..MaxFrameNumber
    /\ Len(pipe) <= MaxQueue
    /\ stale \in 0..MaxQueue
    /\ upc \in {"idle", "drain"}

====
